---- MODULE Spec2Model ----
(***************************************************************************)
(* Package installation orchestrator of dotfiles-go: the sequential batch  *)
(* (Installer.InstallPackages), the parallel batch                         *)
(* (ParallelInstaller.InstallPackagesParallel with its worker pool), the   *)
(* single-package operation (Installer.InstallPackage) and the provider    *)
(* registry they select from.                                              *)
(*                                                                         *)
(* One behaviour is one batch call on a freshly constructed installer, as  *)
(* cmd/dotfiles/commands/install.go performs it.  Thread 0 is the caller's *)
(* goroutine (the sequential loop); threads 1..maxWorkers are the workers  *)
(* of the pool.                                                            *)
(*                                                                         *)
(* The ProgressManager the batches report to is not part of this state:    *)
(* SendEvent is a non-blocking send and AddResult writes the reporter's    *)
(* own map, so neither changes a variable below.                           *)
(***************************************************************************)
EXTENDS Integers, Sequences, FiniteSets, TLC

\* ---------------------------------------------------------------- bounds
MaxLen == 2
MaxWorkers == 2
MaxReg == 3
MaxCPU == 4
MaxCount == 6
\* number of SendEvent calls on one ProgressManager
MaxSend == 102

Names == {"a", "b"}

\* provider names and priorities a caller may register
RegNames == {"yay", "pacman", "winget", "unknown"}

Priorities == 0..2

\* ------------------------------------------------------------- variables
VARIABLES
  lock,          \* /var/lib/pacman/db.lck exists
  sudoOk,        \* "sudo -n echo test" succeeds
  packages,      \* the package list given to the batch call
  opts,          \* InstallOptions: Force, DryRun, Parallel, MaxWorkers
  available,     \* names of the providers whose IsAvailable() is true
  failSet,       \* packages whose backend install command fails
  installed0,    \* the installed-set before the batch (history)
  installedPkgs, \* the package database the providers query and mutate
  cancelled,     \* the caller's context is done
  gcancel,       \* a worker returned an error to the errgroup, which cancelled its context
  mpc,           \* position of the batch call: call, seq, par, done
  idx,           \* sequential loop: index of the next package
  th,            \* per thread: pc, pkg, occ, mgr
  packageChan,   \* the work queue (positions of the list; the code sends packages[i])
  semaphore,     \* number of slots taken in pi.semaphore
  results,       \* the result slice (results / pi.results)
  ops,           \* history: the provider operation behind each result
  retErr,        \* the error returned by the batch call
  calls,         \* history: InstallPackage calls started per list position
  takes,         \* history: receives from packageChan per list position
  lateTake,      \* history: a package was received after the cancellation
  lateStart,     \* history: an InstallPackage call started after the cancellation
  reg,           \* i.managers: the registered providers, in registration order
  cpuCount,      \* runtime.NumCPU()
  ret,           \* the last call of a function of the registry: fn, arg, val
  pm             \* the ProgressManager of the batch, with its event channel

vars == <<packages, opts, available, failSet, installed0, installedPkgs,
          cancelled, gcancel, mpc, idx, th, packageChan, semaphore, results,
          ops, retErr, calls, takes, lateTake, lateStart, reg, cpuCount, ret, pm,
          lock, sudoOk>>

\* what a batch call is given and does not change: its arguments, the
\* machine, the registry
inputs == <<packages, opts, available, failSet, installed0, reg, cpuCount, ret,
            lock, sudoOk>>

\* ------------------------------------------------------ provider registry
\* the value TestYayManager_Priority asks of YayManager.Priority()
YayPriorityTested == 1

\* YayManager.Priority(), PacmanManager.Priority(), WingetManager.Priority()
YayPriority == 0

PacmanPriority == 1

WingetPriority == 2

\* mutant of Priority: yay and pacman have each other's priority
PrioritySwapped(name) ==
  CASE name = "yay"    -> PacmanPriority
    [] name = "pacman" -> YayPriority
    [] name = "winget" -> WingetPriority

\* Priority() of the provider called name
Priority(name) ==
  CASE name = "yay"    -> YayPriority
    [] name = "pacman" -> PacmanPriority
    [] name = "winget" -> WingetPriority

\* i.managers after InitializeManagers: yay, pacman, winget, sorted by priority.
managers ==
  << [name |-> "yay",    priority |-> Priority("yay")],
     [name |-> "pacman", priority |-> Priority("pacman")],
     [name |-> "winget", priority |-> Priority("winget")] >>

\* the nil PackageManager
NoManager == [name |-> "", priority |-> -1]

\* The availability sets a machine can show: nothing on PATH, an Arch Linux
\* with yay, a Linux with pacman only, a Windows with winget.
AvailChoices == { {}, {"yay", "pacman"}, {"pacman"}, {"winget"} }

\* mutant of GetAvailableManagers: IsAvailable is not asked
GetAvailableManagersAll(avail) == reg

GetAvailableManagers(avail) == SelectSeq(reg, LAMBDA m : m.name \in avail)

\* mutant of MinScan: manager.Priority() <= best.Priority(), the last of
\* equal priorities wins
RECURSIVE MinScanLast(_, _)
MinScanLast(best, rest) ==
  IF rest = <<>> THEN best
  ELSE MinScanLast(IF Head(rest).priority <= best.priority THEN Head(rest)
                   ELSE best,
                   Tail(rest))

RECURSIVE MinScan(_, _)
MinScan(best, rest) ==
  IF rest = <<>> THEN best
  ELSE MinScan(IF Head(rest).priority < best.priority THEN Head(rest) ELSE best,
               Tail(rest))

SelectManager(avail) ==
  LET a == GetAvailableManagers(avail)
  IN  IF Len(a) = 0 THEN NoManager ELSE MinScan(a[1], Tail(a))

\* mutant of supportsParallel: pacman is classified as parallel-capable
supportsParallelPacman(avail) ==
  IF Len(GetAvailableManagers(avail)) = 0 THEN FALSE
  ELSE SelectManager(avail).name \in {"pacman", "winget"}

\* mutant of supportsParallel: the default branch of the switch answers true
supportsParallelDefault(avail) ==
  IF Len(GetAvailableManagers(avail)) = 0 THEN FALSE
  ELSE SelectManager(avail).name \notin {"pacman", "yay"}

supportsParallel(avail) ==
  IF Len(GetAvailableManagers(avail)) = 0 THEN FALSE
  ELSE LET m == SelectManager(avail)
       IN  IF m = NoManager THEN FALSE
           ELSE IF m.name = "pacman" THEN FALSE
           ELSE IF m.name = "winget" THEN TRUE
           ELSE IF m.name = "yay" THEN FALSE
           ELSE FALSE

\* PacmanManager.Install and YayManager.Install return nil without running
\* the backend when the package is already installed; WingetManager.Install
\* always runs the backend.  YayManager.Install's checks of the database
\* lock and of sudo come before, see InstallPreCheck.
InstallChecksInstalled(mgr) == mgr \in {"pacman", "yay"}

\* mutant of checkPacmanLock: the lock file is not looked at
checkPacmanLockNever(lk) == "none"

\* os.Stat of the lock file succeeds: an error, and nothing else is done
checkPacmanLock(lk) == IF lk THEN "lock" ELSE "none"

\* "sudo -n echo test" fails: an error
checkSudoPermissions(ok) == IF ok THEN "none" ELSE "sudo"

\* What manager.Install returns before it looks at the package: only
\* YayManager.Install checks the lock and sudo, in this order.
InstallPreCheck(mgr) ==
  IF mgr # "yay" THEN "none"
  ELSE IF checkPacmanLock(lock) # "none" THEN checkPacmanLock(lock)
  ELSE checkSudoPermissions(sudoOk)

NoRepeat(sq) ==
  \A i, j \in 1..Len(sq) : sq[i] = sq[j] => i = j

\* ----------------------------------------------------------------- Init
ListsUpTo(n) == UNION { [1..k -> Names] : k \in 0..n }

OptsChoices ==
  { [Force |-> f, DryRun |-> d, Parallel |-> p, MaxWorkers |-> w,
     Quiet |-> q] :
      f \in BOOLEAN, d \in BOOLEAN, p \in BOOLEAN, w \in 1..MaxWorkers,
      q \in BOOLEAN }

\* mutant of NewParallelInstaller: maxWorkers is taken as given
NewParallelInstallerAsGiven(maxWorkers) == maxWorkers

\* pi.maxWorkers: maxWorkers <= 0 stands for runtime.NumCPU()
NewParallelInstaller(maxWorkers) ==
  IF maxWorkers <= 0 THEN cpuCount ELSE maxWorkers

\* mutant of WorkerCount: the start loop runs once too often
WorkerCountOffByOne(maxWorkers) == maxWorkers + 1

\* for i := 0; i < pi.maxWorkers; i++ { g.Go(...) }
WorkerCount(maxWorkers) == maxWorkers

\* mutant of SemaphoreCap: the semaphore channel is unbuffered
SemaphoreCapZero(maxWorkers) == 0

SemaphoreCap(maxWorkers) == maxWorkers

Threads == 0..(MaxWorkers + 1)

Idle == [pc |-> "idle", pkg |-> "", occ |-> 0, mgr |-> ""]

NoRet == [fn |-> "none", arg |-> <<>>, val |-> <<>>]

\* ------------------------------------------------------ ProgressManager
\* make(chan ProgressEvent, 100)
EventsCap == 100

EventTypes == {"ProgressStart", "ProgressSuccess", "ProgressFail", "ProgressSkip"}

ProgressEvent(type, pkg, mgr) ==
  [Type |-> type, PackageName |-> pkg, Manager |-> mgr, Timestamp |-> 0]

\* The fields of the ProgressManager, and with them: consumer, the state of
\* the goroutine of processEvents; closed, whether the channel is closed;
\* now, the clock that SendEvent stamps events with; sent and handled, the
\* history of the events given to SendEvent and of those handleEvent got;
\* sending, a SendEvent call has read started = true and has not reached
\* its select yet; panicked, a send hit the closed channel.
NewProgressManager(pkgs) ==
  [totalPkgs |-> Len(pkgs), events |-> <<>>, results |-> [n \in {} |-> n],
   started |-> FALSE, closed |-> FALSE, completedPkgs |-> 0,
   consumer |-> "none", now |-> 0, sent |-> <<>>, handled |-> <<>>,
   sending |-> FALSE, panicked |-> FALSE]

\* pm.started = true; go pm.processEvents()
Start(p) == [p EXCEPT !.started = TRUE, !.consumer = "running"]

\* mutant of SendEvent: a plain send on a channel that takes the event
\* whatever its length, no select with a default branch
SendEventUnbounded(p, ev) ==
  IF ~p.started THEN p
  ELSE [p EXCEPT !.now = @ + 1,
                 !.events = Append(@, [ev EXCEPT !.Timestamp = p.now + 1]),
                 !.sent = Append(@, [ev |-> [ev EXCEPT !.Timestamp = p.now + 1],
                                     accepted |-> TRUE])]

\* event.Timestamp = time.Now(); select { case pm.events <- event: default: }
\* on an open channel
trySend(p, ev) ==
  LET e        == [ev EXCEPT !.Timestamp = p.now + 1]
      accepted == Len(p.events) < EventsCap
  IN  [p EXCEPT !.now = @ + 1,
                !.events = IF accepted THEN Append(@, e) ELSE @,
                !.sent = Append(@, [ev |-> e, accepted |-> accepted])]

\* if pm.started { ... }, by a caller that no Close overlaps
SendEvent(p, ev) ==
  IF ~p.started THEN p ELSE trySend(p, ev)

handleEvent(p, ev) ==
  [p EXCEPT !.completedPkgs = IF ev.Type = "ProgressStart" THEN @ ELSE @ + 1,
            !.handled = Append(@, ev)]

\* pm.started = false; close(pm.events)
Close(p) == [p EXCEPT !.started = FALSE, !.closed = TRUE]

\* pm.results[result.PackageName] = result
AddResult(p, r) ==
  [p EXCEPT !.results = [n \in DOMAIN @ \cup {r.PackageName} |->
                           IF n = r.PackageName THEN r ELSE @[n]]]

\* InstallSummary; Results is the set of the map's values, which the code
\* lists in the map's iteration order
GetSummary(p) ==
  [TotalPackages |-> p.totalPkgs,
   Successful |-> Cardinality({ n \in DOMAIN p.results : p.results[n].Success }),
   Failed |-> Cardinality({ n \in DOMAIN p.results : ~p.results[n].Success }),
   Skipped |-> 0,
   Results |-> { p.results[n] : n \in DOMAIN p.results }]

\* mutant of TerminalEvent: a skipped package is reported as a success
TerminalEventNoSkip(pkg, r) ==
  ProgressEvent(IF r.Error # "none" THEN "ProgressFail" ELSE "ProgressSuccess",
                pkg, r.Manager)

\* the event sent after InstallPackage returned result r for pkg
TerminalEvent(pkg, r) ==
  ProgressEvent(IF r.Error # "none" THEN "ProgressFail"
                ELSE IF r.Skipped THEN "ProgressSkip"
                ELSE "ProgressSuccess",
                pkg, r.Manager)

\* mutant of StartUnlessQuiet: the manager is started in quiet mode too
StartAlways(quiet, p) == Start(p)

\* if !opts.Quiet { progressMgr.Start(); defer progressMgr.Close() }
StartUnlessQuiet(quiet, p) == IF quiet THEN p ELSE Start(p)

\* What a step of a batch does to its ProgressManager.  Entering the batch
\* creates it and, unless Quiet, starts it; a step that begins an
\* InstallPackage call sends ProgressStart first; a step that appends a
\* result adds it to the map and sends the terminal event; returning from
\* the batch runs the deferred Close, unless Quiet.
ProgressStep ==
  pm' =
    IF mpc = "call" /\ mpc' # "call"
      THEN StartUnlessQuiet(opts.Quiet, NewProgressManager(packages))
    ELSE IF mpc # "done" /\ mpc' = "done"
      THEN IF opts.Quiet THEN pm ELSE Close(pm)
    ELSE LET began == { i \in 1..Len(packages) : calls'[i] > calls[i] }
             p1    == IF began = {} THEN pm
                      ELSE SendEvent(pm,
                             ProgressEvent("ProgressStart",
                                           packages[CHOOSE i \in began : TRUE], ""))
         IN  IF Len(results') > Len(results)
               THEN LET r   == results'[Len(results')]
                        pkg == ops'[Len(ops')].pkg
                    IN  SendEvent(AddResult(p1, r), TerminalEvent(pkg, r))
               ELSE p1

\* a machine on which no other package manager holds the database lock and
\* sudo needs no password
NoLock ==
  /\ lock = FALSE
  /\ sudoOk = TRUE

\* nothing of a batch has run yet
BatchStart ==
  /\ installedPkgs = installed0
  /\ cancelled = FALSE
  /\ gcancel = FALSE
  /\ mpc = "call"
  /\ idx = 1
  /\ th = [t \in Threads |-> Idle]
  /\ packageChan = <<>>
  /\ semaphore = 0
  /\ results = <<>>
  /\ ops = <<>>
  /\ retErr = "none"
  /\ calls = [i \in 1..Len(packages) |-> 0]
  /\ takes = [i \in 1..Len(packages) |-> 0]
  /\ lateTake = FALSE
  /\ lateStart = FALSE
  /\ pm = NewProgressManager(packages)

\* Of the inputs that a batch cannot tell apart, one is kept: a package
\* outside the list is neither installed nor failing; the installed-set is
\* empty when nothing reads it (no provider, or Force with a dry run or
\* with a provider whose Install does not ask IsInstalled); and a package
\* whose backend command cannot run (no provider, dry run, or installed and
\* therefore skipped or found present) is not in failSet.
InputsMatter ==
  LET used  == { packages[i] : i \in 1..Len(packages) }
      m     == SelectManager(available)
      reads == /\ m # NoManager
               /\ \/ ~opts.Force
                  \/ (~opts.DryRun /\ InstallChecksInstalled(m.name))
      runs(pkg) == /\ m # NoManager
                   /\ ~opts.DryRun
                   /\ pkg \notin installed0
  IN  /\ installed0 \subseteq (IF reads THEN used ELSE {})
      /\ failSet \subseteq { pkg \in used : runs(pkg) }

Init ==
  /\ NoLock
  /\ reg = managers
  /\ cpuCount = MaxCPU
  /\ ret = NoRet
  /\ packages \in ListsUpTo(MaxLen)
  /\ opts \in OptsChoices
  /\ opts.Quiet
  /\ (~opts.Parallel => opts.MaxWorkers = 1)
  /\ available \in AvailChoices
  /\ failSet \in SUBSET Names
  /\ installed0 \in SUBSET Names
  /\ InputsMatter
  /\ BatchStart


\* ------------------------------------------------------ InstallPackage
\* error values: "none" is nil, "nomgr" the 'no package manager' error,
\* "install" a backend failure, "ctx" the context's cancellation error.
\* mutant of ResultName: every result reads one shared loop variable
ResultNameShared(pkg) ==
  IF packages = <<>> THEN pkg ELSE packages[Len(packages)]

ResultName(pkg) == pkg

NewResult(pkg, mgr, success, skipped, err) ==
  [PackageName |-> ResultName(pkg), Manager |-> mgr, Success |-> success,
   Skipped |-> skipped, Error |-> err]

\* mutant of InstallPackageBegin: the dry-run decision is taken before the
\* skip decision
InstallPackageBeginDryRunFirst(pkg, inst) ==
  LET m == SelectManager(available)
      r(success, skipped, err) ==
        [PackageName |-> pkg, Manager |-> m.name, Success |-> success,
         Skipped |-> skipped, Error |-> err]
  IN  IF m = NoManager
        THEN [done |-> TRUE, op |-> "nomgr", res |-> r(FALSE, FALSE, "nomgr")]
      ELSE IF opts.DryRun
        THEN [done |-> TRUE, op |-> "dryrun", res |-> r(TRUE, FALSE, "none")]
      ELSE IF ~opts.Force /\ pkg \in inst
        THEN [done |-> TRUE, op |-> "skip", res |-> r(TRUE, TRUE, "none")]
      ELSE IF InstallChecksInstalled(m.name) /\ pkg \in inst
        THEN [done |-> TRUE, op |-> "present", res |-> r(TRUE, FALSE, "none")]
      ELSE   [done |-> FALSE, op |-> "install", res |-> r(FALSE, FALSE, "none")]

\* mutant of InstallPackageBegin: opts.DryRun is read only when Force is off
InstallPackageBeginForceBeatsDryRun(pkg, inst) ==
  LET m == SelectManager(available)
      r(success, skipped, err) ==
        [PackageName |-> pkg, Manager |-> m.name, Success |-> success,
         Skipped |-> skipped, Error |-> err]
  IN  IF m = NoManager
        THEN [done |-> TRUE, op |-> "nomgr", res |-> r(FALSE, FALSE, "nomgr")]
      ELSE IF ~opts.Force /\ pkg \in inst
        THEN [done |-> TRUE, op |-> "skip", res |-> r(TRUE, TRUE, "none")]
      ELSE IF opts.DryRun /\ ~opts.Force
        THEN [done |-> TRUE, op |-> "dryrun", res |-> r(TRUE, FALSE, "none")]
      ELSE IF InstallChecksInstalled(m.name) /\ pkg \in inst
        THEN [done |-> TRUE, op |-> "present", res |-> r(TRUE, FALSE, "none")]
      ELSE   [done |-> FALSE, op |-> "install", res |-> r(FALSE, FALSE, "none")]

\* mutant of InstallPackageBegin: manager == nil is not checked
InstallPackageBeginNoNilCheck(pkg, inst) ==
  LET m == SelectManager(available)
  IN  IF ~opts.Force /\ pkg \in inst
        THEN [done |-> TRUE, op |-> "skip",
              res |-> [PackageName |-> pkg, Manager |-> m.name,
                       Success |-> TRUE, Skipped |-> TRUE, Error |-> "none"]]
      ELSE IF opts.DryRun
        THEN [done |-> TRUE, op |-> "dryrun",
              res |-> [PackageName |-> pkg, Manager |-> m.name,
                       Success |-> TRUE, Skipped |-> FALSE, Error |-> "none"]]
      ELSE   [done |-> FALSE, op |-> "install",
              res |-> [PackageName |-> pkg, Manager |-> m.name,
                       Success |-> FALSE, Skipped |-> FALSE, Error |-> "none"]]

\* InstallPackage up to the call of manager.Install: either the result is
\* decided at once (done) or the backend command is started (not done).
\* op names the provider operation performed, pkg the package handed to it.
InstallPackageBegin(pkg, inst) ==
  LET m == SelectManager(available)
  IN  IF m = NoManager
        THEN [done |-> TRUE, op |-> "nomgr",
              res |-> NewResult(pkg, "", FALSE, FALSE, "nomgr")]
      ELSE IF ~opts.Force /\ pkg \in inst
        THEN [done |-> TRUE, op |-> "skip",
              res |-> NewResult(pkg, m.name, TRUE, TRUE, "none")]
      ELSE IF opts.DryRun
        THEN [done |-> TRUE, op |-> "dryrun",
              res |-> NewResult(pkg, m.name, TRUE, FALSE, "none")]
      ELSE IF InstallPreCheck(m.name) # "none"
        THEN [done |-> TRUE, op |-> "precheck",
              res |-> NewResult(pkg, m.name, FALSE, FALSE,
                                InstallPreCheck(m.name))]
      ELSE IF InstallChecksInstalled(m.name) /\ pkg \in inst
        THEN [done |-> TRUE, op |-> "present",
              res |-> NewResult(pkg, m.name, TRUE, FALSE, "none")]
      ELSE   [done |-> FALSE, op |-> "install",
              res |-> NewResult(pkg, m.name, FALSE, FALSE, "none")]

\* mutant of InstallPackageEnd: the provider's error is logged, not stored
InstallPackageEndDropsError(pkg, mgr, err) ==
  [PackageName |-> pkg, Manager |-> mgr, Success |-> err = "none",
   Skipped |-> FALSE, Error |-> "none"]

\* InstallPackage after manager.Install returned err.
InstallPackageEnd(pkg, mgr, err) == NewResult(pkg, mgr, err = "none", FALSE, err)

\* What the backend command can return: it fails for the packages of failSet;
\* exec.CommandContext kills it when the context is done, unless it had
\* already finished.
InstallOutcomes(pkg, ctxDone) ==
  (IF pkg \in failSet THEN {"install"} ELSE {"none"})
    \cup (IF ctxDone THEN {"ctx"} ELSE {})

\* mutants of AppendResult: the result is put in front; a failed result is
\* appended by the error branch as well.
AppendResultInFront(rs, r) == <<r>> \o rs

AppendResultTwiceOnError(rs, r) ==
  IF r.Error # "none" THEN rs \o <<r, r>> ELSE Append(rs, r)

AppendResult(rs, r) == Append(rs, r)

OpOf(i, pkg, op, err) == [occ |-> i, pkg |-> pkg, op |-> op, err |-> err]

\* Thread t calls InstallPackage for position i of the list; a result that
\* is decided at once is appended and the thread goes on at backPc.
StartCall(t, i, ctxDone, backPc) ==
  LET pkg == packages[i]
      b   == InstallPackageBegin(pkg, installedPkgs)
  IN  /\ calls' = [calls EXCEPT ![i] = @ + 1]
      /\ lateStart' = (lateStart \/ ctxDone)
      /\ IF b.done
           THEN /\ results' = AppendResult(results, b.res)
                /\ ops' = Append(ops, OpOf(i, pkg, b.op, b.res.Error))
                /\ th' = [th EXCEPT ![t] = [Idle EXCEPT !.pc = backPc]]
           ELSE /\ th' = [th EXCEPT ![t] = [pc |-> "installing", pkg |-> pkg,
                                            occ |-> i, mgr |-> b.res.Manager]]
                /\ UNCHANGED <<results, ops>>

\* manager.Install returns err in thread t; InstallPackage returns and the
\* result is appended.
FinishCall(t, err) ==
  /\ results' = AppendResult(results, InstallPackageEnd(th[t].pkg, th[t].mgr, err))
  /\ ops' = Append(ops, OpOf(th[t].occ, th[t].pkg, "install", err))
  /\ installedPkgs' = IF err = "none" THEN installedPkgs \cup {th[t].pkg}
                      ELSE installedPkgs

\* --------------------------------------------------------- cancellation
Cancel ==
  /\ mpc # "done"
  /\ ~cancelled
  /\ cancelled' = TRUE
  /\ UNCHANGED <<inputs, installedPkgs, gcancel, mpc, idx, th, packageChan,
                 semaphore, results, ops, retErr, calls, takes, lateTake,
                 lateStart>>
  /\ ProgressStep

\* ------------------------------------------------ Installer.InstallPackages
InstallPackages_Enter ==
  /\ mpc = "call"
  /\ ~opts.Parallel
  /\ mpc' = "seq"
  /\ th' = [th EXCEPT ![0] = [Idle EXCEPT !.pc = "loop"]]
  /\ UNCHANGED <<inputs, installedPkgs, cancelled, gcancel, idx, packageChan,
                 semaphore, results, ops, retErr, calls, takes, lateTake,
                 lateStart>>
  /\ ProgressStep

\* The `break` of installer.go:109 stands inside the select statement, so it
\* leaves the select and the for loop goes on with the next package.
\* mutant of SeqNextIdx: a failed package is tried again
SeqNextIdxRetry(i, err, force) == IF err # "none" THEN i ELSE i + 1

SeqNextIdx(i, err, force) == i + 1

\* case <-ctx.Done(): return results, ctx.Err()
SeqCancelled ==
  /\ mpc = "seq"
  /\ th[0].pc = "loop"
  /\ idx <= Len(packages)
  /\ cancelled
  /\ mpc' = "done"
  /\ retErr' = "ctx"
  /\ th' = [th EXCEPT ![0] = [Idle EXCEPT !.pc = "exit"]]
  /\ UNCHANGED <<inputs, installedPkgs, cancelled, gcancel, idx, packageChan,
                 semaphore, results, ops, calls, takes, lateTake, lateStart>>
  /\ ProgressStep

\* default: InstallPackage(ctx, pkg, opts) up to manager.Install
SeqInstall ==
  /\ mpc = "seq"
  /\ th[0].pc = "loop"
  /\ idx <= Len(packages)
  /\ ~cancelled
  /\ StartCall(0, idx, cancelled, "loop")
  /\ idx' = IF InstallPackageBegin(packages[idx], installedPkgs).done
              THEN SeqNextIdx(idx, InstallPackageBegin(packages[idx], installedPkgs).res.Error,
                              opts.Force)
              ELSE idx
  /\ UNCHANGED <<inputs, installedPkgs, cancelled, gcancel, mpc, packageChan,
                 semaphore, retErr, takes, lateTake>>
  /\ ProgressStep

SeqInstallReturn ==
  /\ mpc = "seq"
  /\ th[0].pc = "installing"
  /\ \E err \in InstallOutcomes(th[0].pkg, cancelled) :
       /\ FinishCall(0, err)
       /\ idx' = SeqNextIdx(idx, err, opts.Force)
  /\ th' = [th EXCEPT ![0] = [Idle EXCEPT !.pc = "loop"]]
  /\ UNCHANGED <<inputs, cancelled, gcancel, mpc, packageChan, semaphore,
                 retErr, calls, takes, lateTake, lateStart>>
  /\ ProgressStep

\* the loop is over: return results, nil
SeqReturn ==
  /\ mpc = "seq"
  /\ th[0].pc = "loop"
  /\ idx > Len(packages)
  /\ mpc' = "done"
  /\ retErr' = "none"
  /\ th' = [th EXCEPT ![0] = [Idle EXCEPT !.pc = "exit"]]
  /\ UNCHANGED <<inputs, installedPkgs, cancelled, gcancel, idx, packageChan,
                 semaphore, results, ops, calls, takes, lateTake, lateStart>>
  /\ ProgressStep

\* ------------------------------ ParallelInstaller.InstallPackagesParallel
Workers == 1..WorkerCount(NewParallelInstaller(opts.MaxWorkers))

\* the context the workers see: errgroup.WithContext(ctx)
GroupCtxDone == cancelled \/ gcancel

\* mutant of InstallPackagesParallel_Fallback: the executor has no fallback
\* of its own and starts the pool whatever the provider
InstallPackagesParallel_NoFallback ==
  /\ mpc = "call"
  /\ opts.Parallel
  /\ ~supportsParallel(available)
  /\ mpc' = "par"
  /\ packageChan' = [i \in 1..Len(packages) |-> i]
  /\ th' = [t \in Threads |->
              IF t \in 1..WorkerCount(NewParallelInstaller(opts.MaxWorkers))
                THEN [Idle EXCEPT !.pc = "select"] ELSE th[t]]
  /\ UNCHANGED <<inputs, installedPkgs, cancelled, gcancel, idx, semaphore,
                 results, ops, retErr, calls, takes, lateTake, lateStart>>
  /\ ProgressStep

\* !pi.supportsParallel(): return pi.installer.InstallPackages(ctx, packages, opts)
InstallPackagesParallel_Fallback ==
  /\ mpc = "call"
  /\ opts.Parallel
  /\ ~supportsParallel(available)
  /\ mpc' = "seq"
  /\ th' = [th EXCEPT ![0] = [Idle EXCEPT !.pc = "loop"]]
  /\ UNCHANGED <<inputs, installedPkgs, cancelled, gcancel, idx, packageChan,
                 semaphore, results, ops, retErr, calls, takes, lateTake,
                 lateStart>>
  /\ ProgressStep

\* fill and close packageChan, start the workers
InstallPackagesParallel_Enter ==
  /\ mpc = "call"
  /\ opts.Parallel
  /\ supportsParallel(available)
  /\ mpc' = "par"
  /\ packageChan' = [i \in 1..Len(packages) |-> i]
  /\ th' = [t \in Threads |-> IF t \in Workers THEN [Idle EXCEPT !.pc = "select"]
                              ELSE th[t]]
  /\ UNCHANGED <<inputs, installedPkgs, cancelled, gcancel, idx, semaphore,
                 results, ops, retErr, calls, takes, lateTake, lateStart>>
  /\ ProgressStep

\* worker, outer select, case <-ctx.Done(): return ctx.Err(); the first
\* non-nil error returned to the errgroup cancels the group's context.
WorkerCtxDone(w) ==
  /\ mpc = "par"
  /\ th[w].pc = "select"
  /\ GroupCtxDone
  /\ th' = [th EXCEPT ![w] = [Idle EXCEPT !.pc = "exit"]]
  /\ gcancel' = TRUE
  /\ UNCHANGED <<inputs, installedPkgs, cancelled, mpc, idx, packageChan,
                 semaphore, results, ops, retErr, calls, takes, lateTake,
                 lateStart>>
  /\ ProgressStep

\* worker, outer select, case pkg, ok := <-packageChan with ok: when the
\* context is done as well, Go's select picks one of the ready cases at random.
WorkerRecv(w) ==
  /\ mpc = "par"
  /\ th[w].pc = "select"
  /\ packageChan # <<>>
  /\ th' = [th EXCEPT ![w] = [pc |-> "acquire",
                              pkg |-> packages[Head(packageChan)],
                              occ |-> Head(packageChan), mgr |-> ""]]
  /\ packageChan' = Tail(packageChan)
  /\ takes' = [takes EXCEPT ![Head(packageChan)] = @ + 1]
  /\ lateTake' = (lateTake \/ GroupCtxDone)
  /\ UNCHANGED <<inputs, installedPkgs, cancelled, gcancel, mpc, idx,
                 semaphore, results, ops, retErr, calls, lateStart>>
  /\ ProgressStep

\* worker, outer select, the channel is closed and empty: return nil
WorkerChanClosed(w) ==
  /\ mpc = "par"
  /\ th[w].pc = "select"
  /\ packageChan = <<>>
  /\ th' = [th EXCEPT ![w] = [Idle EXCEPT !.pc = "exit"]]
  /\ UNCHANGED <<inputs, installedPkgs, cancelled, gcancel, mpc, idx,
                 packageChan, semaphore, results, ops, retErr, calls, takes,
                 lateTake, lateStart>>
  /\ ProgressStep

\* After installPackageWithProgress returned err the worker logs it and
\* goes on with the loop; it does not return.  (Mutant: it returns err.)
WorkerReturnsOnError(err) == err # "none"

WorkerReturns(err) == FALSE

\* worker, inner select, case pi.semaphore <- struct{}{}:
\* installPackageWithProgress up to manager.Install.  A result decided at
\* once is appended and the slot released in the same step.
WorkerAcquire(w) ==
  /\ mpc = "par"
  /\ th[w].pc = "acquire"
  /\ semaphore < SemaphoreCap(NewParallelInstaller(opts.MaxWorkers))
  /\ LET b == InstallPackageBegin(th[w].pkg, installedPkgs)
         back == IF b.done /\ WorkerReturns(b.res.Error) THEN "exit" ELSE "select"
     IN  /\ StartCall(w, th[w].occ, GroupCtxDone, back)
         /\ semaphore' = IF b.done THEN semaphore ELSE semaphore + 1
         /\ gcancel' = (gcancel \/ (b.done /\ WorkerReturns(b.res.Error)))
  /\ UNCHANGED <<inputs, installedPkgs, cancelled, mpc, idx, packageChan,
                 retErr, takes, lateTake>>
  /\ ProgressStep

\* worker, inner select, case <-ctx.Done(): return ctx.Err()
WorkerAcquireCtxDone(w) ==
  /\ mpc = "par"
  /\ th[w].pc = "acquire"
  /\ GroupCtxDone
  /\ th' = [th EXCEPT ![w] = [Idle EXCEPT !.pc = "exit"]]
  /\ gcancel' = TRUE
  /\ UNCHANGED <<inputs, installedPkgs, cancelled, mpc, idx, packageChan,
                 semaphore, results, ops, retErr, calls, takes, lateTake,
                 lateStart>>
  /\ ProgressStep

\* manager.Install returns in worker w: the result is appended under
\* resultsMutex and the semaphore slot is released.
WorkerInstallReturn(w) ==
  /\ mpc = "par"
  /\ th[w].pc = "installing"
  /\ \E err \in InstallOutcomes(th[w].pkg, GroupCtxDone) :
       /\ FinishCall(w, err)
       /\ th' = [th EXCEPT ![w] = [Idle EXCEPT !.pc =
                    IF WorkerReturns(err) THEN "exit" ELSE "select"]]
       /\ gcancel' = (gcancel \/ WorkerReturns(err))
  /\ semaphore' = semaphore - 1
  /\ UNCHANGED <<inputs, cancelled, mpc, idx, packageChan, retErr, calls,
                 takes, lateTake, lateStart>>
  /\ ProgressStep

\* The error g.Wait() returns is logged and dropped: return results, nil
WaitResult(werr) == "none"

\* g.Wait() returns once every worker has returned; the results are copied
\* and returned.
InstallPackagesParallel_Return ==
  /\ mpc = "par"
  /\ \A w \in Workers : th[w].pc = "exit"
  /\ mpc' = "done"
  /\ retErr' = WaitResult(IF gcancel THEN "ctx" ELSE "none")
  /\ UNCHANGED <<inputs, installedPkgs, cancelled, gcancel, idx, th, packageChan,
                 semaphore, results, ops, calls, takes, lateTake, lateStart>>
  /\ ProgressStep

Next ==
  \/ Cancel
  \/ InstallPackages_Enter
  \/ SeqCancelled
  \/ SeqInstall
  \/ SeqInstallReturn
  \/ SeqReturn
  \/ InstallPackagesParallel_Fallback
  \/ InstallPackagesParallel_Enter
  \/ \E w \in Workers : WorkerCtxDone(w)
  \/ \E w \in Workers : WorkerRecv(w)
  \/ \E w \in Workers : WorkerChanClosed(w)
  \/ \E w \in Workers : WorkerAcquire(w)
  \/ \E w \in Workers : WorkerAcquireCtxDone(w)
  \/ \E w \in Workers : WorkerInstallReturn(w)
  \/ InstallPackagesParallel_Return

Spec == Init /\ [][Next]_vars

\* ------------------------------------------------- scheduling of a batch
\* mutant of Killable: the backend command is started with exec.Command
KillableNever(mgr) == FALSE

\* Every provider starts its backend command with exec.CommandContext(ctx,
\* ...), which kills the process once ctx is done.
Killable(mgr) == mgr \in {"yay", "pacman", "winget"}

\* the steps of the goroutines of a batch other than the return of a
\* backend command
OwnSteps ==
  \/ InstallPackages_Enter
  \/ SeqCancelled
  \/ SeqInstall
  \/ SeqReturn
  \/ InstallPackagesParallel_Fallback
  \/ InstallPackagesParallel_Enter
  \/ \E w \in Workers : WorkerCtxDone(w)
  \/ \E w \in Workers : WorkerRecv(w)
  \/ \E w \in Workers : WorkerChanClosed(w)
  \/ \E w \in Workers : WorkerAcquire(w)
  \/ \E w \in Workers : WorkerAcquireCtxDone(w)
  \/ InstallPackagesParallel_Return

\* manager.Install returns in some thread
InstallReturns ==
  \/ SeqInstallReturn
  \/ \E w \in Workers : WorkerInstallReturn(w)

\* manager.Install returns in a thread whose context is done and whose
\* backend command the context kills
KilledReturns ==
  \/ SeqInstallReturn /\ cancelled /\ Killable(th[0].mgr)
  \/ \E w \in Workers :
       WorkerInstallReturn(w) /\ GroupCtxDone /\ Killable(th[w].mgr)

\* the batches whose packages are all missing and whose backend commands
\* succeed when they come to their end
InitLive ==
  /\ Init
  /\ ~opts.Force
  /\ ~opts.DryRun
  /\ available \in {{"pacman"}, {"winget"}}
  /\ installed0 = {}
  /\ failSet = {}

\* A batch whose goroutines keep being scheduled.  A backend command may
\* run for ever as long as its context is not done; once it is done the
\* command is killed and Install returns.
SpecCancel ==
  /\ InitLive
  /\ [][Next]_vars
  /\ WF_vars(OwnSteps)
  /\ WF_vars(KilledReturns)

\* A batch whose goroutines keep being scheduled and whose backend
\* commands all come to an end.
SpecTerm ==
  /\ InitLive
  /\ [][Next]_vars
  /\ WF_vars(OwnSteps)
  /\ WF_vars(InstallReturns)

\* the sequential executor ran (directly or as the fallback)
SeqRan == th[0].pc # "idle"

\* the worker pool ran
ParRan == \E w \in Workers : th[w].pc # "idle"

Returned == mpc = "done"

\* ------------------------------------------- the registry and its readers
\* the state of a batch call, which the calls below leave alone
batch == <<packages, opts, failSet, installed0, installedPkgs, cancelled,
           gcancel, mpc, idx, th, packageChan, semaphore, results, ops,
           retErr, calls, takes, lateTake, lateStart, pm, lock, sudoOk>>

RegisteredNames == { reg[i].name : i \in 1..Len(reg) }

\* i.managers = append(i.managers, manager); the provider registered is
\* available or not (MockPackageManager.available, exec.LookPath).  Every
\* caller registers a provider name once.
RegisterManager ==
  \E n \in RegNames \ RegisteredNames, p \in Priorities, a \in BOOLEAN :
    /\ Len(reg) < MaxReg
    /\ reg' = Append(reg, [name |-> n, priority |-> p])
    /\ available' = IF a THEN available \cup {n} ELSE available
    /\ ret' = NoRet
    /\ UNCHANGED <<batch, cpuCount>>

\* the backend of a registered provider appears on the machine or
\* disappears from it: IsAvailable answers differently from now on
SetAvailable ==
  \E n \in RegisteredNames :
    /\ available' = IF n \in available THEN available \ {n}
                    ELSE available \cup {n}
    /\ ret' = NoRet
    /\ UNCHANGED <<batch, reg, cpuCount>>

Called(fn, arg, val) ==
  /\ ret' = [fn |-> fn, arg |-> arg, val |-> val]
  /\ UNCHANGED <<batch, reg, available, cpuCount>>

GetAvailableManagers_Call ==
  Called("GetAvailableManagers", <<>>, GetAvailableManagers(available))

SelectManager_Call ==
  Called("SelectManager", <<>>, SelectManager(available))

supportsParallel_Call ==
  Called("supportsParallel", <<>>, supportsParallel(available))

\* int(float64(cpuCount) * 1.5): the product is exact, the conversion
\* truncates
OneAndAHalfTimes(c) == (3 * c) \div 2

\* mutant of GetOptimalWorkerCount: packageCount < cpuCount
GetOptimalWorkerCountStrict(packageCount) ==
  IF packageCount <= 2 THEN 1
  ELSE IF packageCount < cpuCount THEN packageCount
  ELSE OneAndAHalfTimes(cpuCount)

GetOptimalWorkerCount(packageCount) ==
  IF packageCount <= 2 THEN 1
  ELSE IF packageCount <= cpuCount THEN packageCount
  ELSE OneAndAHalfTimes(cpuCount)

\* the Reason is kept as its parts: which message, and what it is
\* formatted with
Capability(supported, workers, reason) ==
  [Supported |-> supported, RecommendedWorkers |-> workers, Reason |-> reason]

\* mutant of CheckParallelCapability: len(packages) < 1
CheckParallelCapabilityOne(pkgs, avail) ==
  IF ~supportsParallel(avail)
    THEN Capability(FALSE, 0, <<"manager">>)
  ELSE IF Len(pkgs) < 1
    THEN Capability(FALSE, 0, <<"few">>)
  ELSE Capability(TRUE, GetOptimalWorkerCount(Len(pkgs)), <<"supported">>)

CheckParallelCapability(pkgs, avail) ==
  IF ~supportsParallel(avail)
    THEN LET manager == SelectManager(avail)
         IN  Capability(FALSE, 0,
               <<"manager", IF manager = NoManager THEN "unknown"
                            ELSE manager.name>>)
  ELSE IF Len(pkgs) <= 1
    THEN Capability(FALSE, 0, <<"few">>)
  ELSE Capability(TRUE, GetOptimalWorkerCount(Len(pkgs)),
                  <<"supported", GetOptimalWorkerCount(Len(pkgs))>>)

CheckParallelCapability_Call ==
  \E pkgs \in ListsUpTo(MaxLen) :
    Called("CheckParallelCapability", pkgs,
           CheckParallelCapability(pkgs, available))

GetOptimalWorkerCount_Call ==
  \E n \in 0..MaxCount :
    Called("GetOptimalWorkerCount", n, GetOptimalWorkerCount(n))

\* runInstall: which executor the command hands the packages to, and the
\* number of workers of the pool when it is the parallel one
Routed(executor, workers) == [executor |-> executor, workers |-> workers]

runInstall(parallel, maxWorkers, pkgs, avail) ==
  IF Len(GetAvailableManagers(avail)) = 0 \/ Len(pkgs) = 0
    THEN Routed("error", 0)
  ELSE IF parallel
    THEN LET pi         == NewParallelInstaller(maxWorkers)
             capability == CheckParallelCapability(pkgs, avail)
         IN  IF capability.Supported
               THEN Routed("InstallPackagesParallel", WorkerCount(pi))
               ELSE Routed("InstallPackages", 0)
  ELSE Routed("InstallPackages", 0)

runInstall_Call ==
  \E p \in BOOLEAN, w \in 0..MaxWorkers, pkgs \in ListsUpTo(MaxLen) :
    Called("runInstall", [parallel |-> p, maxWorkers |-> w, packages |-> pkgs],
           runInstall(p, w, pkgs, available))

\* a batch during which backends appear and disappear and the registry is
\* read; the packages are new to the machine, their installs succeed unless
\* cancelled, and the pool, when there is one, has one worker
InitAvail ==
  /\ NoLock
  /\ reg = managers
  /\ cpuCount = MaxCPU
  /\ ret = NoRet
  /\ packages \in ListsUpTo(MaxLen)
  /\ opts \in OptsChoices
  /\ opts.Quiet
  /\ opts.MaxWorkers = 1
  /\ ~opts.Force /\ ~opts.DryRun
  /\ available \in AvailChoices
  /\ failSet = {}
  /\ installed0 = {}
  /\ BatchStart

NextAvail ==
  \/ Next
  \/ SetAvailable
  \/ GetAvailableManagers_Call
  \/ SelectManager_Call

SpecAvail == InitAvail /\ [][NextAvail]_vars

\* A batch of packages not yet installed, with any options, while the
\* backends of the registered providers appear and disappear.
\* supportsParallel reads the availability once, when
\* InstallPackagesParallel starts; every InstallPackage reads it again.
InitSwitch ==
  /\ Init
  /\ ~opts.Force /\ ~opts.DryRun
  /\ failSet = {}
  /\ installed0 = {}

NextSwitch ==
  \/ Next
  \/ SetAvailable

SpecSwitch == InitSwitch /\ [][NextSwitch]_vars

\* everything but the ProgressManager
notpm == <<packages, opts, failSet, installed0, installedPkgs, cancelled,
           gcancel, mpc, idx, th, packageChan, semaphore, results, ops,
           retErr, calls, takes, lateTake, lateStart, reg, available,
           cpuCount, ret, lock, sudoOk>>

\* processEvents, one round of the range loop: receive the next event of
\* the channel and handle it
ProcessEvent ==
  /\ pm.consumer = "running"
  /\ pm.events # <<>>
  /\ pm' = handleEvent([pm EXCEPT !.events = Tail(@)], Head(pm.events))
  /\ UNCHANGED notpm

\* mutant of ProcessEventsExit: the loop ends as soon as the channel is
\* closed, whatever is still in it
ProcessEventsExitEarly ==
  /\ pm.consumer = "running"
  /\ pm.closed
  /\ pm' = [pm EXCEPT !.consumer = "stopped"]
  /\ UNCHANGED notpm

\* processEvents: the channel is closed and empty, the range loop ends
ProcessEventsExit ==
  /\ pm.consumer = "running"
  /\ pm.closed
  /\ pm.events = <<>>
  /\ pm' = [pm EXCEPT !.consumer = "stopped"]
  /\ UNCHANGED notpm

\* a batch with the progress display on (Quiet off)
InitEvents ==
  /\ NoLock
  /\ reg = managers
  /\ cpuCount = MaxCPU
  /\ ret = NoRet
  /\ packages \in ListsUpTo(MaxLen)
  /\ opts \in OptsChoices
  /\ ~opts.Quiet
  /\ ~opts.Force /\ ~opts.DryRun
  /\ opts.MaxWorkers = (IF opts.Parallel THEN 2 ELSE 1)
  /\ available \in {{"pacman"}, {"winget"}}
  /\ failSet \in SUBSET Names
  /\ installed0 \in SUBSET Names
  /\ InputsMatter
  /\ BatchStart

NextEvents ==
  \/ Next
  \/ ProcessEvent
  \/ ProcessEventsExit

SpecEvents == InitEvents /\ [][NextEvents]_vars

\* ------------------------------------------- a batch with or without
\* progress display.  A list long enough for the sequential executor to
\* send more events than the channel holds: two events a package.  The
\* installs of a pool with progress display succeed (those that fail are
\* in SpecEvents).
LongLen == EventsCap \div 2 + 1

LongList == [i \in 1..LongLen |-> "a"]

InitObserve ==
  /\ NoLock
  /\ reg = managers
  /\ cpuCount = MaxCPU
  /\ ret = NoRet
  /\ opts \in OptsChoices
  /\ opts.MaxWorkers = (IF opts.Parallel THEN 2 ELSE 1)
  /\ \/ packages \in ListsUpTo(MaxLen)
     \/ /\ packages = LongList
        /\ ~opts.Parallel /\ ~opts.Quiet /\ ~opts.Force
  /\ available \in {{"pacman"}, {"winget"}}
  /\ failSet \in SUBSET Names
  /\ (~opts.Quiet /\ opts.Parallel) => failSet = {}
  /\ installed0 \in SUBSET Names
  /\ InputsMatter
  /\ BatchStart

SpecObserve == InitObserve /\ [][NextEvents]_vars

\* ------------------------------------------------- the install command
\* the flags of `dotfiles install` (install.go:43-48)
FlagChoices ==
  { [interactive |-> i, force |-> f, dryRun |-> d, quiet |-> q,
     parallel |-> p, maxWorkers |-> (IF p THEN 2 ELSE 1)] :
      i \in BOOLEAN, f \in BOOLEAN, d \in BOOLEAN, q \in BOOLEAN,
      p \in BOOLEAN }

\* runInstall: opts := installer.InstallOptions{Force: force, ...}
runInstallOptions(flags) ==
  [Force |-> flags.force, DryRun |-> flags.dryRun,
   Parallel |-> flags.parallel, MaxWorkers |-> flags.maxWorkers,
   Quiet |-> flags.quiet]

\* PackageSelectionScenario.executeInstallation: the options are a literal;
\* p.options, which Configure stored from the flags, is not read.
executeInstallationOptions ==
  [Force |-> FALSE, DryRun |-> FALSE, Parallel |-> FALSE, MaxWorkers |-> 1,
   Quiet |-> FALSE]

\* the options the batch of the command runs with
InstallCommandOptions(flags) ==
  IF flags.interactive THEN executeInstallationOptions
  ELSE runInstallOptions(flags)

\* The command is run with some flags, kept in ret for the whole run; the
\* packages are the arguments or, in interactive mode, the selection.
InitCommand ==
  /\ NoLock
  /\ reg = managers
  /\ cpuCount = MaxCPU
  /\ packages \in ListsUpTo(MaxLen)
  /\ \E flags \in FlagChoices :
       /\ ret = [fn |-> "installCmd", arg |-> flags,
                 val |-> InstallCommandOptions(flags)]
       /\ opts = InstallCommandOptions(flags)
  /\ available \in {{"pacman"}, {"winget"}}
  /\ failSet = {}
  /\ installed0 \in SUBSET Names
  /\ InputsMatter
  /\ BatchStart

SpecCommand == InitCommand /\ [][NextEvents]_vars

\* ------------------------------------- a second batch on the same objects
\* The caller, after a batch returned, calls the same executor of the same
\* ParallelInstaller again with another list and a fresh context.  ret keeps
\* what the first call was given and returned.  pi.results is a field set
\* once by NewParallelInstaller and only appended to, so the pool's results
\* stay; InstallPackages starts from a slice of its own.
CallAgain ==
  /\ mpc = "done"
  /\ ret.fn = "none"
  /\ ret' = [fn |-> "InstallPackagesParallel", arg |-> <<packages>>,
             val |-> results]
  /\ packages' \in ListsUpTo(MaxLen)
  /\ results' = IF ParRan THEN results ELSE <<>>
  /\ ops' = IF ParRan THEN ops ELSE <<>>
  /\ mpc' = "call"
  /\ idx' = 1
  /\ th' = [t \in Threads |-> Idle]
  /\ packageChan' = <<>>
  /\ retErr' = "none"
  /\ calls' = [i \in 1..Len(packages') |-> 0]
  /\ takes' = [i \in 1..Len(packages') |-> 0]
  /\ lateTake' = FALSE
  /\ lateStart' = FALSE
  /\ cancelled' = FALSE
  /\ gcancel' = FALSE
  /\ pm' = NewProgressManager(packages')
  /\ UNCHANGED <<opts, available, failSet, installed0, installedPkgs,
                 semaphore, reg, cpuCount, lock, sudoOk>>

NextReuse ==
  \/ Next
  \/ CallAgain

SpecReuse == InitLive /\ [][NextReuse]_vars

\* ------------------------------------- batches and the database lock
\* what a batch call writes
program == <<installedPkgs, cancelled, gcancel, mpc, idx, th, packageChan,
             semaphore, results, ops, retErr, calls, takes, lateTake,
             lateStart, pm>>

\* another package manager takes the database lock, or releases it
LockChanges ==
  /\ lock' = ~lock
  /\ UNCHANGED <<program, packages, opts, available, failSet, installed0,
                 reg, cpuCount, ret, sudoOk>>

\* a batch on a machine where the lock file may exist and sudo may ask for
\* a password
InitLock ==
  /\ lock \in BOOLEAN
  /\ sudoOk \in BOOLEAN
  /\ reg = managers
  /\ cpuCount = MaxCPU
  /\ ret = NoRet
  /\ packages \in ListsUpTo(MaxLen)
  /\ opts \in OptsChoices
  /\ opts.Quiet
  /\ opts.MaxWorkers = (IF opts.Parallel THEN 2 ELSE 1)
  /\ available \in {{"yay"}, {"yay", "pacman"}, {"winget"}}
  /\ failSet = {}
  /\ installed0 \in SUBSET Names
  /\ BatchStart

NextLock ==
  \/ Next
  \/ LockChanges

SpecLock == InitLock /\ [][NextLock]_vars

\* ------------------------------------- a ProgressManager and its callers
\* the k-th event a batch of one package sends when it keeps installing it
EventNo(k) ==
  ProgressEvent(IF k % 2 = 1 THEN "ProgressStart" ELSE "ProgressSuccess",
                "a", "winget")

Start_Call ==
  /\ ~pm.started
  /\ ~pm.closed
  /\ pm' = Start(pm)
  /\ UNCHANGED notpm

SendEvent_Call ==
  /\ Len(pm.sent) < MaxSend
  /\ pm' = SendEvent(pm, EventNo(Len(pm.sent) + 1))
  /\ UNCHANGED notpm

Close_Call ==
  /\ pm.started
  /\ pm' = Close(pm)
  /\ UNCHANGED notpm

\* SendEvent by a goroutine other than the one that calls Close, in its
\* two steps.  First the test of pm.started, read without pm.mu: the call
\* returns at once when it reads false.
SendEvent_Test ==
  /\ ~pm.sending
  /\ ~pm.panicked
  /\ Len(pm.sent) < MaxSend
  /\ pm' = [pm EXCEPT !.sending = pm.started]
  /\ UNCHANGED notpm

\* Then the select: a send on a closed channel panics, whatever the other
\* cases of the select.
SendEvent_Select ==
  /\ pm.sending
  /\ pm' = IF pm.closed
             THEN [pm EXCEPT !.sending = FALSE, !.panicked = TRUE]
             ELSE [trySend(pm, EventNo(Len(pm.sent) + 1)) EXCEPT
                     !.sending = FALSE]
  /\ UNCHANGED notpm

NextRace ==
  \/ Start_Call
  \/ SendEvent_Test
  \/ SendEvent_Select
  \/ ProcessEvent
  \/ ProcessEventsExit
  \/ Close_Call

\* NewProgressManager, then Start, SendEvent and Close from the installing
\* side and the goroutine of processEvents on the other
InitProgress ==
  /\ NoLock
  /\ reg = managers
  /\ available = {"winget"}
  /\ cpuCount = MaxCPU
  /\ ret = NoRet
  /\ packages = <<"a">>
  /\ opts = [Force |-> TRUE, DryRun |-> FALSE, Parallel |-> FALSE,
             MaxWorkers |-> 1, Quiet |-> FALSE]
  /\ failSet = {}
  /\ installed0 = {}
  /\ BatchStart

NextProgress ==
  \/ Start_Call
  \/ SendEvent_Call
  \/ ProcessEvent
  \/ ProcessEventsExit
  \/ Close_Call

SpecProgress == InitProgress /\ [][NextProgress]_vars

\* a ProgressManager whose SendEvent and Close are called by different
\* goroutines
SpecRace == InitProgress /\ [][NextRace]_vars

\* the goroutine of processEvents keeps being scheduled while the process
\* lives
SpecDrain ==
  /\ InitProgress
  /\ [][NextProgress]_vars
  /\ WF_vars(ProcessEvent)
  /\ WF_vars(ProcessEventsExit)

\* no batch: the arguments of the batch call are empty
NoBatch ==
  /\ NoLock
  /\ packages = <<>>
  /\ opts = [Force |-> FALSE, DryRun |-> FALSE, Parallel |-> FALSE,
             MaxWorkers |-> 1, Quiet |-> TRUE]
  /\ failSet = {}
  /\ installed0 = {}
  /\ BatchStart

\* NewInstaller, then any registrations, availability changes and reads
InitReg ==
  /\ reg = <<>>
  /\ available = {}
  /\ cpuCount = MaxCPU
  /\ ret = NoRet
  /\ NoBatch

NextReg ==
  \/ RegisterManager
  \/ SetAvailable
  \/ GetAvailableManagers_Call
  \/ SelectManager_Call
  \/ supportsParallel_Call
  \/ CheckParallelCapability_Call

SpecReg == InitReg /\ [][NextReg]_vars

\* the install command on a machine with cpuCount logical CPUs and the
\* registry of InitializeManagers
InitCalc ==
  /\ reg = managers
  /\ available \in AvailChoices
  /\ cpuCount \in 1..MaxCPU
  /\ ret = NoRet
  /\ NoBatch

NextCalc ==
  \/ GetOptimalWorkerCount_Call
  \/ CheckParallelCapability_Call
  \/ runInstall_Call

SpecCalc == InitCalc /\ [][NextCalc]_vars

\* ------------------------------------------------------------------ C1
\* C1: sequential batch with force=false: after a package's InstallPackage
\* returned an error no later package is started and the results end with
\* the failed one; with force=true a batch that returns without a
\* cancellation error has one result per package of the list.
C1_FailFastUnlessForce ==
  /\ (SeqRan /\ ~opts.Force) =>
        \A k \in 1..Len(results) :
          results[k].Error # "none" =>
            /\ Len(results) = k
            /\ \A i \in (k + 1)..Len(packages) : calls[i] = 0
  /\ (SeqRan /\ opts.Force /\ Returned /\ retErr = "none") =>
        Len(results) = Len(packages)

\* ------------------------------------------------------------------ C2
\* C2: the sequential batch processes the packages one at a time in list
\* order, and results[i].PackageName = packages[i] for every i <= Len(results).
C2_SeqOrderPreserved ==
  SeqRan =>
    /\ Len(results) <= Len(packages)
    /\ \A i \in 1..Len(results) :
         /\ results[i].PackageName = packages[i]
         /\ ops[i].occ = i
    /\ \A i \in 1..Len(packages) :
         /\ calls[i] <= 1
         /\ calls[i] = 1 => i <= Len(results) + 1
    /\ \A t \in Workers : th[t].pc = "idle"

C2_Witness ==
  /\ SeqRan /\ Returned
  /\ Len(results) = 2
  /\ results[1].PackageName # results[2].PackageName

\* ------------------------------------------------------------------ C3
\* C3: sequential batch of a non-empty list: when the context was cancelled
\* before InstallPackages returned, no package was started after the
\* cancellation and the call returns the cancellation error.
C3_SeqCancelReturnsCtxErr ==
  (SeqRan /\ Returned /\ cancelled /\ packages # <<>>) =>
     /\ ~lateStart
     /\ retErr = "ctx"

\* ------------------------------------------------------------------ C4
\* C4: parallel batch, context not cancelled: a failed install stops neither
\* its worker nor the others nor the pool; every package of the list gets a
\* result, and a result is unsuccessful exactly when it carries an error.
InFlight == { w \in Workers : th[w].pc = "installing" }

C4_FailureIsolation ==
  (ParRan /\ ~cancelled) =>
     /\ ~gcancel
     /\ \A w \in Workers : th[w].pc = "exit" => packageChan = <<>>
     /\ \A k \in 1..Len(results) :
          /\ results[k].Success <=> results[k].Error = "none"
          /\ ops[k].op = "install" =>
               (results[k].Error # "none" <=> ops[k].pkg \in failSet)
     /\ Returned => Len(results) = Len(packages)

C4_Witness ==
  /\ ParRan /\ Returned /\ ~cancelled
  /\ ~opts.Force
  /\ Len(results) = 2
  /\ results[1].Error = "install"
  /\ results[2].Success /\ ~results[2].Skipped

\* ------------------------------------------------------------------ C5
\* C5: parallel batch, context not cancelled: every position of the list is
\* received from the queue by exactly one worker and yields exactly one
\* result, and each result carries the name and the outcome of the provider
\* operation performed for that position.
C5_OneResultPerOccurrence ==
  (ParRan /\ ~cancelled) =>
     /\ \A i \in 1..Len(packages) :
          /\ takes[i] <= 1
          /\ calls[i] <= takes[i]
          /\ Cardinality({ k \in 1..Len(ops) : ops[k].occ = i }) <= calls[i]
          /\ Returned =>
               /\ takes[i] = 1
               /\ Cardinality({ k \in 1..Len(ops) : ops[k].occ = i }) = 1
     /\ \A k \in 1..Len(results) :
          /\ ops[k].pkg = packages[ops[k].occ]
          /\ results[k].PackageName = ops[k].pkg
          /\ results[k].Error = ops[k].err
          /\ results[k].Skipped <=> ops[k].op = "skip"
          /\ results[k].Success <=> ops[k].err = "none"

C5_Witness ==
  /\ ParRan /\ Returned /\ ~cancelled
  /\ Cardinality(Workers) = 2
  /\ Len(results) = 2
  /\ ops[1].occ = 2
  /\ results[1].PackageName # results[2].PackageName
  /\ \E k \in 1..2 : results[k].Skipped
  /\ \E k \in 1..2 : results[k].Error = "install"

\* ------------------------------------------------------------------ C6
\* C6: in every state of a parallel batch at most maxWorkers provider
\* Install calls are in flight, the pool has as many workers as the
\* semaphore has slots, and a worker that asks for a slot finds one free.
C6_ConcurrencyBound ==
  ParRan =>
     /\ Cardinality(InFlight) <= NewParallelInstaller(opts.MaxWorkers)
     /\ Cardinality(InFlight) = semaphore
     /\ semaphore <= SemaphoreCap(NewParallelInstaller(opts.MaxWorkers))
     /\ Cardinality(Workers) = SemaphoreCap(NewParallelInstaller(opts.MaxWorkers))
     /\ \A w \in Workers :
          th[w].pc = "acquire" =>
            semaphore < SemaphoreCap(NewParallelInstaller(opts.MaxWorkers))

C6_Witness ==
  /\ ParRan
  /\ opts.MaxWorkers = 2
  /\ Cardinality(InFlight) = 2
  /\ semaphore = SemaphoreCap(NewParallelInstaller(opts.MaxWorkers))

\* ------------------------------------------------------------------ C7
\* C7: parallel batch: once the workers' context is cancelled, no worker
\* receives a further package from the queue and no InstallPackage call is
\* started.
C7_NoDispatchAfterCancel ==
  ParRan => (~lateTake /\ ~lateStart)

\* ------------------------------------------------------------------ C8
\* C8: InstallPackagesParallel returns a non-nil error when the pool stopped
\* because the context was cancelled, and nil when only packages failed.
C8_CancelErrorReturned ==
  (ParRan /\ Returned) => (retErr # "none" <=> gcancel)

\* ------------------------------------------------------------------ C9
\* C9: both executors, list without repeated names, context cancelled: the
\* result list has at most Len(packages) entries, every entry is a result
\* of a package of the list, and no package name occurs twice.
ResultNames == [k \in 1..Len(results) |-> results[k].PackageName]

C9_CancelledListWellFormed ==
  (NoRepeat(packages) /\ cancelled) =>
     /\ Len(results) <= Len(packages)
     /\ \A k \in 1..Len(results) :
          /\ results[k].PackageName \in { packages[i] : i \in 1..Len(packages) }
          /\ results[k].Success \in BOOLEAN
          /\ results[k].Error \in {"none", "nomgr", "install", "ctx"}
     /\ NoRepeat(ResultNames)

C9_Witness ==
  /\ NoRepeat(packages) /\ cancelled /\ Returned
  /\ ParRan
  /\ Len(packages) = 2
  /\ Len(results) = 1
  /\ results[1].Error = "ctx"

\* ----------------------------------------------------------------- C10
\* The result list of the sequential executor when the context is never
\* cancelled, from position i on with the installed-set inst.
RECURSIVE InstallPackagesResults(_, _, _)
InstallPackagesResults(i, inst, acc) ==
  IF i > Len(packages) THEN acc
  ELSE LET pkg == packages[i]
           b   == InstallPackageBegin(pkg, inst)
           err == IF b.done THEN b.res.Error
                  ELSE CHOOSE e \in InstallOutcomes(pkg, FALSE) : TRUE
           r   == IF b.done THEN b.res
                  ELSE InstallPackageEnd(pkg, b.res.Manager, err)
           in2 == IF ~b.done /\ err = "none" THEN inst \cup {pkg} ELSE inst
       IN  InstallPackagesResults(SeqNextIdx(i, err, opts.Force), in2,
                                  AppendResult(acc, r))

\* the sequential actions compute what InstallPackagesResults computes
SeqMatchesResults ==
  (SeqRan /\ Returned /\ ~cancelled) =>
     results = InstallPackagesResults(1, installed0, <<>>)

Outcome(r) == <<r.PackageName, r.Success, r.Skipped, r.Error # "none">>

OutcomeSet(rs) == { Outcome(rs[k]) : k \in 1..Len(rs) }

\* C10: for every package list, the set of (name, success, skipped, failed)
\* outcomes returned by the parallel executor equals the set the sequential
\* executor returns for the same options, provider, installed-set and
\* failing packages.
C10_ParallelEqualsSequential ==
  (ParRan /\ Returned /\ ~cancelled) =>
     OutcomeSet(results) = OutcomeSet(InstallPackagesResults(1, installed0, <<>>))

\* ----------------------------------------------------------------- C11
\* The provider SelectManager has to return, said without the scan: an
\* available provider that no available provider beats in priority and no
\* available provider of the same priority precedes in the registry.
IsBest(mgrs, avail, i) ==
  /\ mgrs[i].name \in avail
  /\ \A j \in 1..Len(mgrs) :
       mgrs[j].name \in avail =>
         \/ mgrs[i].priority < mgrs[j].priority
         \/ (mgrs[i].priority = mgrs[j].priority /\ i <= j)

BestName(mgrs, avail) ==
  IF \E i \in 1..Len(mgrs) : mgrs[i].name \in avail
    THEN mgrs[CHOOSE i \in 1..Len(mgrs) : IsBest(mgrs, avail, i)].name
    ELSE ""

\* C11 as written: InstallPackagesParallel never runs the sequential
\* executor on its own, whatever the selected provider.
C11_NeverDowngradesItself ==
  opts.Parallel => ~SeqRan

\* C11 as amended: once InstallPackagesParallel has been entered it runs the
\* sequential executor itself exactly when the selected provider is not
\* winget (no provider included), and the worker pool exactly when it is.
C11_FallsBackItself ==
  (opts.Parallel /\ mpc # "call") =>
     /\ SeqRan <=> BestName(reg, available) # "winget"
     /\ ParRan <=> BestName(reg, available) = "winget"

C11_Witness ==
  /\ opts.Parallel
  /\ BestName(reg, available) = "yay"
  /\ SeqRan
  /\ th[0].pc = "installing"

\* ----------------------------------------------------------------- C12
\* C12: when the selected provider does not support parallel installs (for
\* one, pacman), InstallPackagesParallel returns what InstallPackages returns
\* for the same arguments: without a cancellation the result list of the
\* sequential executor, one result per package in input order, and a nil
\* error; no worker of the pool ever runs.
C12_FallbackReturnsSequential ==
  (opts.Parallel /\ BestName(reg, available) # "winget" /\ Returned) =>
     /\ \A w \in Threads \ {0} : th[w].pc = "idle"
     /\ ~cancelled =>
          /\ results = InstallPackagesResults(1, installed0, <<>>)
          /\ Len(results) = Len(packages)
          /\ \A i \in 1..Len(packages) : results[i].PackageName = packages[i]
          /\ retErr = "none"

C12_Witness ==
  /\ opts.Parallel
  /\ BestName(reg, available) = "pacman"
  /\ Returned
  /\ ~cancelled
  /\ packages = <<"a", "b">>
  /\ Len(results) = 2
  /\ \A i \in 1..2 : results[i].Success /\ ~results[i].Skipped
  /\ retErr = "none"

\* ----------------------------------------------------------------- C13
\* C13 as written: the pool the install command starts has max-workers
\* workers when max-workers > 0 and GetOptimalWorkerCount(number of
\* packages) workers when max-workers = 0, hence 1 worker for at most 2
\* packages and never more than floor(1.5 x CPU count).
C13_PoolSizeOptimal ==
  (ret.fn = "runInstall" /\ ret.val.executor = "InstallPackagesParallel") =>
     LET w == ret.arg.maxWorkers
         n == Len(ret.arg.packages)
     IN  /\ w > 0 => ret.val.workers = w
         /\ w = 0 =>
              /\ ret.val.workers = GetOptimalWorkerCount(n)
              /\ n <= 2 => ret.val.workers = 1
              /\ 2 * ret.val.workers <= 3 * cpuCount

\* C13 as amended: the pool has max-workers workers when max-workers > 0
\* and as many workers as the machine has logical CPUs when max-workers = 0,
\* whatever the number of packages; it has at least one worker and with
\* max-workers = 0 never more than floor(1.5 x CPU count).
C13_PoolSizeCPU ==
  (ret.fn = "runInstall" /\ ret.val.executor = "InstallPackagesParallel") =>
     LET w == ret.arg.maxWorkers
     IN  /\ ret.val.workers >= 1
         /\ w > 0 => ret.val.workers = w
         /\ w = 0 =>
              /\ ret.val.workers = cpuCount
              /\ 2 * ret.val.workers <= 3 * cpuCount

C13_Witness ==
  /\ ret.fn = "runInstall"
  /\ ret.val.executor = "InstallPackagesParallel"
  /\ ret.arg.maxWorkers = 0
  /\ Len(ret.arg.packages) = 2
  /\ cpuCount = 4
  /\ ret.val.workers = 4

\* ----------------------------------------------------------------- C14
\* C14: for N packages on a machine with C logical CPUs
\* GetOptimalWorkerCount(N) is 1 when N <= 2, N when 2 < N <= C, and the
\* integer part of 1.5 x C when N > C and N > 2.
C14_OptimalWorkerCount ==
  ret.fn = "GetOptimalWorkerCount" =>
     LET n == ret.arg
         v == ret.val
     IN  /\ n <= 2 => v = 1
         /\ (2 < n /\ n <= cpuCount) => v = n
         /\ (n > cpuCount /\ n > 2) =>
              (2 * v <= 3 * cpuCount /\ 3 * cpuCount < 2 * v + 2)

C14_Witness ==
  /\ ret.fn = "GetOptimalWorkerCount"
  /\ cpuCount = 3
  /\ ret.arg = 5
  /\ ret.val = 4

\* ----------------------------------------------------------------- C15
\* C15: for every N >= 1 and C >= 1 GetOptimalWorkerCount(N) is at least 1
\* and at most N, and the RecommendedWorkers of a supported capability is
\* greater than 0.
C15_WorkersWithinPackages ==
  /\ (ret.fn = "GetOptimalWorkerCount" /\ ret.arg >= 1) =>
        (1 <= ret.val /\ ret.val <= ret.arg)
  /\ (ret.fn = "CheckParallelCapability" /\ ret.val.Supported) =>
        ret.val.RecommendedWorkers > 0

\* ----------------------------------------------------------------- C16
\* C16: CheckParallelCapability answers Supported = false for the empty
\* list and for a list of one package, whatever providers are registered
\* and available.
C16_FewPackagesUnsupported ==
  (ret.fn = "CheckParallelCapability" /\ Len(ret.arg) <= 1) =>
     ~ret.val.Supported

C16_Witness ==
  /\ ret.fn = "CheckParallelCapability"
  /\ BestName(reg, available) = "winget"
  /\ Len(ret.arg) = 1
  /\ ret.val = Capability(FALSE, 0, <<"few">>)

\* ----------------------------------------------------------------- C17
\* C17: the classification goes by the name of the best available provider
\* alone: supportsParallel answers true exactly when that provider is named
\* winget, and CheckParallelCapability answers Supported = true exactly when
\* it is named winget and the list has at least 2 packages; pacman, yay, any
\* other name and no provider at all are unsupported for every list.
C17_OnlyWingetIsParallel ==
  /\ ret.fn = "supportsParallel" =>
        (ret.val <=> BestName(reg, available) = "winget")
  /\ ret.fn = "CheckParallelCapability" =>
        (ret.val.Supported <=>
           (BestName(reg, available) = "winget" /\ Len(ret.arg) >= 2))

C17_Witness ==
  /\ ret.fn = "CheckParallelCapability"
  /\ BestName(reg, available) = "unknown"
  /\ "winget" \in available
  /\ Len(ret.arg) = 2
  /\ ~ret.val.Supported

\* ----------------------------------------------------------------- C18
\* C18: SelectManager returns the available provider of the smallest
\* priority, among several of that priority the one registered first, and
\* nil exactly when no registered provider is available.
C18_SelectManagerBest ==
  ret.fn = "SelectManager" =>
     IF available \cap RegisteredNames = {}
       THEN ret.val = NoManager
       ELSE /\ ret.val # NoManager
            /\ \E i \in 1..Len(reg) :
                 IsBest(reg, available, i) /\ ret.val = reg[i]

C18_Witness ==
  /\ ret.fn = "SelectManager"
  /\ Len(reg) = 3
  /\ available = RegisteredNames
  /\ reg[1].priority > reg[2].priority
  /\ reg[2].priority = reg[3].priority
  /\ ret.val = reg[2]

\* ----------------------------------------------------------------- C19
\* the registry index of the k-th available provider
KthAvailable(k) ==
  CHOOSE i \in 1..Len(reg) :
    /\ reg[i].name \in available
    /\ Cardinality({ j \in 1..i : reg[j].name \in available }) = k

\* a thread starts an InstallPackage call in this step with the provider
\* that is best in the state the step starts from
StartUsesCurrentBest ==
  \A t \in Threads :
    (calls' # calls /\ th'[t] # th[t]) =>
       IF Len(results') > Len(results)
         THEN results'[Len(results')].Manager = BestName(reg, available)
         ELSE /\ th'[t].pc = "installing"
              /\ th'[t].mgr = BestName(reg, available)

\* a call that ends in this step reports the provider it was started with
EndReportsProvider ==
  \A t \in Threads :
    (th[t].pc = "installing" /\ th'[t].pc # "installing") =>
       /\ Len(results') = Len(results) + 1
       /\ results'[Len(results')].Manager = th[t].mgr

\* C19: availability is never cached.  GetAvailableManagers returns, in
\* registration order, exactly the registered providers available at the
\* time of the call; SelectManager after any availability changes answers
\* for the current availability; and each InstallPackage call of a batch
\* uses the provider that is best when the call starts.
C19_AvailabilityNotCached ==
  /\ [](ret.fn = "GetAvailableManagers" =>
          /\ Len(ret.val) =
               Cardinality({ i \in 1..Len(reg) : reg[i].name \in available })
          /\ \A k \in 1..Len(ret.val) : ret.val[k] = reg[KthAvailable(k)])
  /\ [](ret.fn = "SelectManager" => ret.val.name = BestName(reg, available))
  /\ [][StartUsesCurrentBest /\ EndReportsProvider]_vars

C19_Witness ==
  /\ Len(results) = 2
  /\ results[1].Manager = "yay"
  /\ results[2].Manager = "pacman"
  /\ available = {"pacman"}
  /\ ret.fn = "SelectManager"
  /\ ret.val.name = "pacman"

\* ----------------------------------------------------------------- C20
\* C20: when no provider is available every InstallPackage call returns a
\* result with Success = false, Skipped = false, an empty Manager and the
\* 'no package manager' error and runs no provider operation; the batch
\* returns, with the results of the packages it went through.
C20_NoProviderResult ==
  BestName(reg, available) = "" =>
     /\ \A k \in 1..Len(results) :
          /\ results[k] = [PackageName |-> packages[ops[k].occ],
                           Manager |-> "", Success |-> FALSE,
                           Skipped |-> FALSE, Error |-> "nomgr"]
          /\ ops[k].op = "nomgr"
     /\ \A t \in Threads : th[t].pc # "installing"
     /\ installedPkgs = installed0
     /\ (Returned /\ ~cancelled /\ packages # <<>>) =>
          (results # <<>> /\ \A k \in 1..Len(results) : ops[k].occ = k)

C20_Witness ==
  /\ available = {}
  /\ Returned
  /\ ~cancelled
  /\ Len(results) = 2
  /\ \A k \in 1..2 : results[k].Error = "nomgr"

\* ----------------------------------------------------------------- C21
\* C21: skip logic.  An InstallPackage call that starts while the selected
\* provider reports the package as installed and force is off returns at
\* once a result with Success = true, Skipped = true and a nil error, starts
\* no Install and leaves the installed-set as it is, with dry-run on as well
\* as off.
C21_SkipInstalled ==
  [][\A i \in 1..Len(packages) :
       (/\ calls'[i] > calls[i]
        /\ ~opts.Force
        /\ packages[i] \in installedPkgs
        /\ BestName(reg, available) # "") =>
          /\ results' = results \o
               << [PackageName |-> packages[i],
                   Manager |-> BestName(reg, available),
                   Success |-> TRUE, Skipped |-> TRUE, Error |-> "none"] >>
          /\ installedPkgs' = installedPkgs
          /\ \A t \in Threads :
               th'[t].pc = "installing" => th[t] = th'[t]]_vars

C21_Witness ==
  /\ opts.DryRun
  /\ ~opts.Force
  /\ ParRan
  /\ Len(results) = 2
  /\ results[2].Skipped
  /\ results[2].PackageName \in installed0

\* ----------------------------------------------------------------- C22
\* C22: dry-run.  With dry-run set, for every package, either value of
\* force and both executors, no provider Install is ever started, the
\* installed-set stays what it was, and every result of a call that found a
\* provider has Success = true and a nil error.
C22_DryRunInstallsNothing ==
  opts.DryRun =>
     /\ \A t \in Threads : th[t].pc # "installing"
     /\ \A k \in 1..Len(ops) : ops[k].op \notin {"install", "present"}
     /\ installedPkgs = installed0
     /\ BestName(reg, available) # "" =>
          \A k \in 1..Len(results) :
            results[k].Success /\ results[k].Error = "none"

\* a parallel dry run of an installed and a missing package: the first is
\* skipped, the second succeeds and is still missing afterwards
C22_Witness ==
  /\ opts.DryRun
  /\ ParRan
  /\ Returned
  /\ Len(results) = 2
  /\ results[1].PackageName \in installed0
  /\ results[1].Skipped
  /\ results[2].PackageName \notin installedPkgs
  /\ results[2].Success /\ ~results[2].Skipped

\* ----------------------------------------------------------------- C23
\* C23: force reinstall.  With force on and dry-run off every InstallPackage
\* call for a package that the provider reports as installed runs the
\* provider's backend install command, for pacman, yay and winget alike.
C23_ForceReinstalls ==
  (opts.Force /\ ~opts.DryRun /\ BestName(reg, available) # "") =>
     \A k \in 1..Len(ops) :
       ops[k].pkg \in installed0 => ops[k].op = "install"

\* ----------------------------------------------------------------- C24
\* C24: no automatic retry.  For each occurrence of a package in the input,
\* in both executors and whatever the provider returns, InstallPackage is
\* called at most once and the provider's Install runs at most once.
C24_NoRetry ==
  \A i \in 1..Len(packages) :
    /\ calls[i] <= 1
    /\ takes[i] <= 1
    /\ Cardinality({ k \in 1..Len(ops) : ops[k].occ = i })
         + Cardinality({ t \in Threads :
                           th[t].pc = "installing" /\ th[t].occ = i }) <= 1

C24_Witness ==
  /\ Returned
  /\ ~cancelled
  /\ Len(ops) = 2
  /\ ops[1].op = "install" /\ ops[1].err = "install"
  /\ ops[2].op = "install" /\ ops[2].err = "install"
  /\ calls = <<1, 1>>

\* ----------------------------------------------------------------- C25
\* C25: provider errors are captured, not returned.  When the context is
\* not cancelled both executors return a nil error and the result list, also
\* when some or all packages failed, and the result of each failed package
\* carries the error its InstallPackage call ended with.
C25_ErrorsCaptured ==
  /\ \A k \in 1..Len(results) :
       /\ results[k].Error = ops[k].err
       /\ results[k].Success <=> results[k].Error = "none"
  /\ (Returned /\ ~cancelled) =>
       /\ retErr = "none"
       /\ \A i \in 1..Len(packages) :
            \E k \in 1..Len(results) :
              ops[k].occ = i /\ results[k].PackageName = packages[i]

C25_Witness ==
  /\ ParRan
  /\ Returned
  /\ ~cancelled
  /\ retErr = "none"
  /\ Len(results) = 2
  /\ \A k \in 1..2 : ~results[k].Success /\ results[k].Error = "install"

\* ----------------------------------------------------------------- C29
\* type and package of the events given to SendEvent, in the order given
SentKeys ==
  [k \in 1..Len(pm.sent) |-> <<pm.sent[k].ev.Type, pm.sent[k].ev.PackageName>>]

ExpectedTerminal(r) ==
  << IF r.Error # "none" THEN "ProgressFail"
     ELSE IF r.Skipped THEN "ProgressSkip"
     ELSE "ProgressSuccess",
     r.PackageName >>

\* C29: event protocol with the progress display on, both executors.  Every
\* InstallPackage call has its ProgressStart sent when it begins; every
\* result has exactly one terminal event, sent when the call returns, Fail
\* for an error, Skip for a skipped result, Success otherwise; no terminal
\* event of a package comes before a Start of it; and in the sequential
\* executor the events of package i all come before those of package i+1.
C29_EventProtocol ==
  LET keys == SentKeys
      want == [k \in 1..Len(results) |-> ExpectedTerminal(results[k])]
      startsOf(n, j) ==
        Cardinality({ k \in 1..j : keys[k] = <<"ProgressStart", n>> })
      terminalsOf(n, j) ==
        Cardinality({ k \in 1..j :
                        keys[k][2] = n /\ keys[k][1] # "ProgressStart" })
  IN  /\ \A n \in Names :
           /\ startsOf(n, Len(keys))
                = Cardinality({ i \in 1..Len(packages) :
                                  packages[i] = n /\ calls[i] >= 1 })
           /\ \A j \in 1..Len(keys) : terminalsOf(n, j) <= startsOf(n, j)
           /\ \A t \in EventTypes \ {"ProgressStart"} :
                Cardinality({ k \in 1..Len(keys) : keys[k] = <<t, n>> })
                  = Cardinality({ k \in 1..Len(want) : want[k] = <<t, n>> })
      /\ SeqRan =>
           \A k \in 1..Len(keys) :
             IF k % 2 = 1
               THEN keys[k] = <<"ProgressStart", packages[(k + 1) \div 2]>>
               ELSE /\ keys[k] = want[k \div 2]
                    /\ keys[k][2] = packages[k \div 2]

C29_Witness ==
  /\ ParRan
  /\ Returned
  /\ Len(SentKeys) = 4
  /\ SentKeys[1][1] = "ProgressStart"
  /\ SentKeys[2][1] = "ProgressStart"
  /\ SentKeys[3][1] = "ProgressFail"
  /\ SentKeys[4][1] = "ProgressSuccess"
  /\ pm.handled # <<>>

\* ----------------------------------------------------------------- C28
\* the last result the batch returned for package name n
LastResultOf(n) ==
  results[CHOOSE k \in 1..Len(results) :
            /\ results[k].PackageName = n
            /\ \A j \in (k + 1)..Len(results) : results[j].PackageName # n]

\* C28: the result map holds for each package name the last result added
\* for it, and the summary counts the recorded results: Failed the failed
\* ones, Skipped the skipped ones, Successful the successful ones (counted
\* with or without the skipped ones).
C28_SummaryCounts ==
  LET rec == { pm.results[n] : n \in DOMAIN pm.results }
      sum == GetSummary(pm)
  IN  /\ DOMAIN pm.results = { results[k].PackageName : k \in 1..Len(results) }
      /\ \A n \in DOMAIN pm.results : pm.results[n] = LastResultOf(n)
      /\ sum.Failed = Cardinality({ r \in rec : ~r.Success })
      /\ sum.Skipped = Cardinality({ r \in rec : r.Skipped })
      /\ sum.Successful \in
           { Cardinality({ r \in rec : r.Success }),
             Cardinality({ r \in rec : r.Success /\ ~r.Skipped }) }

\* ----------------------------------------------------------------- C26
\* C26: a SendEvent on a started ProgressManager returns in the same step,
\* whatever the consumer does: with the queue at its capacity of 100 the
\* event is dropped and the queue is as before, otherwise the event is the
\* new last element of the queue; the consumer's state is not touched.
C26_SendEventNeverBlocks ==
  [][ (pm.started /\ Len(pm'.sent) > Len(pm.sent)) =>
        LET s == pm'.sent[Len(pm'.sent)]
        IN  /\ Len(pm'.sent) = Len(pm.sent) + 1
            /\ pm'.handled = pm.handled
            /\ pm'.consumer = pm.consumer
            /\ IF Len(pm.events) = 100
                 THEN ~s.accepted /\ pm'.events = pm.events
                 ELSE s.accepted /\ pm'.events = Append(pm.events, s.ev) ]_vars

\* an event was dropped with the queue full, and one sent later got in
C26_Witness ==
  /\ Len(pm.events) = 100
  /\ \E k \in 1..Len(pm.sent) :
       /\ ~pm.sent[k].accepted
       /\ \E j \in (k + 1)..Len(pm.sent) : pm.sent[j].accepted

\* ----------------------------------------------------------------- C27
\* the events the queue accepted, in the order they were sent
AcceptedEvents ==
  LET acc == SelectSeq(pm.sent, LAMBDA x : x.accepted)
  IN  [k \in 1..Len(acc) |-> acc[k].ev]

\* C27: the events handled so far followed by those still queued are the
\* accepted ones in the order sent, before and after Close; and once the
\* manager is closed the consumer eventually has handled every accepted
\* event and has stopped.
C27_CloseDrains ==
  /\ [](pm.handled \o pm.events = AcceptedEvents)
  /\ pm.closed ~> (pm.consumer = "stopped" /\ pm.handled = AcceptedEvents)

\* Close came with events still queued
C27_Witness ==
  /\ pm.closed
  /\ pm.consumer = "running"
  /\ Len(pm.events) >= 2
  /\ pm.handled # <<>>

\* ----------------------------------------------------------------- C30
\* C30: when InstallPackage gets as far as YayManager.Install (yay is the
\* provider, the package is not skipped, no dry run) and the lock file is
\* there, the call ends at once with a failed result carrying the lock
\* error, no install command is started, the package database is as before
\* and the lock file is still there; no step of the program ever changes
\* the lock file; and no list position gets a second InstallPackage call.
C30_LockSurfaced ==
  /\ [][ \A i \in 1..Len(packages) :
           ( /\ calls'[i] > calls[i]
             /\ BestName(reg, available) = "yay"
             /\ opts.Force \/ packages[i] \notin installedPkgs
             /\ ~opts.DryRun
             /\ lock )
           => /\ \E r \in {results'[Len(results')]} :
                   /\ results' = Append(results, r)
                   /\ r.PackageName = packages[i]
                   /\ r.Manager = "yay"
                   /\ r.Error = "lock"
                   /\ ~r.Success
              /\ \A t \in Threads :
                   th'[t].pc = "installing" => th[t].pc = "installing"
              /\ installedPkgs' = installedPkgs
              /\ lock' = lock ]_vars
  /\ [][ program' # program => lock' = lock ]_vars
  /\ [](\A i \in 1..Len(packages) : calls[i] <= 1)

\* a batch of two packages met the lock at the first and, the lock gone,
\* installed the second
C30_Witness ==
  /\ Returned
  /\ Len(results) = 2
  /\ results[1].Error = "lock"
  /\ results[2].Success
  /\ results[2].Manager = "yay"
  /\ calls = [i \in 1..2 |-> 1]

\* ----------------------------------------------------------------- C32
PriorityOf(name) ==
  reg[CHOOSE i \in 1..Len(reg) : reg[i].name = name].priority

\* C32: the registry of InitializeManagers holds yay, pacman and winget
\* with priorities strictly ordered yay < pacman < winget, and a
\* SelectManager call made while yay and pacman are both available returns
\* yay.
C32_YayBeforePacman ==
  /\ { reg[i].name : i \in 1..Len(reg) } = {"yay", "pacman", "winget"}
  /\ PriorityOf("yay") < PriorityOf("pacman")
  /\ PriorityOf("pacman") < PriorityOf("winget")
  /\ (ret.fn = "SelectManager" /\ {"yay", "pacman"} \subseteq available)
        => ret.val.name = "yay"

C32_Witness ==
  /\ ret.fn = "SelectManager"
  /\ available = {"yay", "pacman"}
  /\ ret.val.name = "yay"
  /\ results # <<>>

ReturnsAfterCancel(t) ==
  /\ th[t].pc = "installing"
  /\ th'[t].pc # "installing"
  /\ IF t = 0 THEN cancelled ELSE GroupCtxDone

PoolAtRest ==
  /\ \A w \in Workers : th[w].pc = "exit"
  /\ semaphore = 0

\* C34: a parallel batch on a parallel-capable provider, whatever the list
\* (empty, shorter than the pool) and the pool size, with backend commands
\* that all come to an end: eventually every worker has returned, none is
\* left waiting for the queue or the semaphore, all slots are free, and
\* InstallPackagesParallel has returned; and it never returns before.
C34_ParallelTerminates ==
  /\ (opts.Parallel /\ supportsParallel(available))
        ~> (Returned /\ ParRan /\ PoolAtRest)
  /\ []((Returned /\ ParRan) => PoolAtRest)

\* a pool of two workers with one package to install has returned, without
\* a cancellation
C34_Witness ==
  /\ Returned
  /\ ParRan
  /\ ~cancelled
  /\ Len(packages) = 1
  /\ Cardinality(Workers) = 2
  /\ Len(results) = 1
  /\ PoolAtRest

\* ----------------------------------------------------------------- C35
\* C35: the list a second call on the same installer returns holds results
\* of that call only: at most one per package of its list, each for a
\* package of its list.
C35_OnlyThisCallsResults ==
  (ret.fn = "InstallPackagesParallel" /\ Returned) =>
     /\ Len(results) <= Len(packages)
     /\ \A k \in 1..Len(results) :
          results[k].PackageName \in { packages[i] : i \in 1..Len(packages) }

\* ----------------------------------------------------------------- C36
\* C36: whatever the interleaving of SendEvent calls with a Close, no send
\* ever hits the closed event channel.
C36_NoSendOnClosedChannel ==
  ~pm.panicked

\* ----------------------------------------------------------------- C37
\* C37: in a parallel batch, also when the availability of the providers
\* changes while it runs, no two Install calls are in flight at the same time
\* on a provider that supportsParallel classifies as not parallel-safe.
C37_NoConcurrentUnsafeInstall ==
  \A w1, w2 \in InFlight :
    (w1 # w2 /\ th[w1].mgr = th[w2].mgr) => supportsParallel({th[w1].mgr})

\* ----------------------------------------------------------------- C38
\* C38: the options given by the user reach every install path: when the
\* install command is run with dry-run set, no provider Install is invoked
\* and nothing is installed, on the interactive path too, and the batch runs
\* with the force value the user gave.
C38_OptionsReachEveryPath ==
  ret.fn = "installCmd" =>
    /\ ret.arg.dryRun =>
         /\ \A t \in Threads : th[t].pc # "installing"
         /\ installedPkgs = installed0
    /\ mpc # "call" => opts.Force = ret.arg.force

\* ----------------------------------------------------------------- C39
\* C39: the progress reporter only observes.  In quiet mode the manager is
\* never started and no event is enqueued, sent or handled, and in both
\* modes every result of the list is recorded in the manager.  The result
\* list and the error of a batch that was not cancelled are what the
\* packages, the provider, the installed and failing packages, Force and
\* DryRun determine (InstallPackagesResults, which reads neither Quiet nor
\* the manager): the very list for the sequential executor, and for the pool
\* one result a package with, for lists without a repeated name, the same
\* outcomes -- whether the events were delivered or dropped.
C39_ProgressIsObservational ==
  /\ opts.Quiet =>
       /\ ~pm.started
       /\ pm.sent = <<>> /\ pm.events = <<>> /\ pm.handled = <<>>
  /\ DOMAIN pm.results = { results[k].PackageName : k \in 1..Len(results) }
  /\ (Returned /\ ~cancelled) =>
       /\ retErr = "none"
       /\ SeqRan => results = InstallPackagesResults(1, installed0, <<>>)
       /\ ParRan =>
            /\ Len(results) = Len(packages)
            /\ NoRepeat(packages) =>
                 OutcomeSet(results)
                   = OutcomeSet(InstallPackagesResults(1, installed0, <<>>))

\* a sequential batch that lost events to the full channel and returned
\* every result all the same
C39_Witness ==
  /\ ~opts.Quiet /\ SeqRan /\ Returned /\ ~cancelled
  /\ \E k \in 1..Len(pm.sent) : ~pm.sent[k].accepted
  /\ Len(results) = Len(packages)
  /\ results = InstallPackagesResults(1, installed0, <<>>)

TypeOK ==
  /\ mpc \in {"call", "seq", "par", "done"}
  /\ semaphore \in 0..(MaxWorkers + 1)
  /\ idx \in 1..(Len(packages) + 1)
  /\ Len(results) = Len(ops)
====
